---------------------------- MODULE Spec2Model ----------------------------
(***************************************************************************)
(* A model of src/sed_model.py: the two LightningModule wrappers           *)
(* SEDWrapper and Ensemble_SEDWrapper.                                     *)
(*                                                                         *)
(* The module is organised in five units, each with its own               *)
(* specification over the same variables (the variables of the other      *)
(* units stay at their idle values):                                       *)
(*   SpecLr      the learning-rate schedule lr_foo under LambdaLR          *)
(*   SpecShift   time_shifting as a pure function                          *)
(*   SpecTest    test_step / forward with shift rounds and ensembling      *)
(*   SpecGather  validation_epoch_end / test_epoch_end on W workers        *)
(*   SpecTrain   training_step / on_train_epoch_end                        *)
(* Spec is their union.                                                    *)
(***************************************************************************)
EXTENDS Integers, Sequences, FiniteSets, TLC

VARIABLES
    unit,                  \* which unit of the program is running
    wrapper,               \* "SEDWrapper" or "Ensemble_SEDWrapper"
    \* ---- configure_optimizers / lr_foo
    lr_rate,               \* config.lr_rate
    lr_scheduler_epoch,    \* config.lr_scheduler_epoch
    epoch,                 \* the scheduler's epoch counter (last_epoch)
    lr_scale,              \* the multiplier lr_foo returned for epoch
    \* ---- time_shifting as a function
    ts_x,                  \* the waveform given (rows of samples)
    ts_k,                  \* the first shift length
    ts_y,                  \* the waveform after the shifts applied so far
    ts_stage,              \* how many shifts have been applied (0, 1, 2)
    \* ---- config shared by test_step and the epoch-end handlers
    dataset_type,          \* config.dataset_type
    fl_local,              \* config.fl_local
    \* ---- test_step / forward
    sed_models,            \* the model(s) wrapped, each named by its kind
    batch,                 \* the batch given to test_step
    tpc,                   \* position in test_step: start, loop, models, forward, done
    shift_num,             \* local shift_num
    i_round,               \* the loop variable i: the shift round
    x_fwd,                 \* forward's local waveform x
    preds,                 \* clip-level predictions of the rounds so far
    pred_maps,             \* frame-level maps of the rounds so far (forward)
    pred_map,              \* SEDWrapper: the last round's map; ensemble: summed maps
    j_model,               \* Ensemble_SEDWrapper.test_step: the loop variable j
    pred,                  \* Ensemble_SEDWrapper.test_step: summed predictions
    ret,                   \* what test_step returned
    \* ---- history of the test step (not program state)
    orig,                  \* batch["waveform"] as test_step received it
    scored,                \* the last call of a model: round and waveform scored
    fwd_inputs,            \* the waveform given to each forward call
    fwd_results,           \* what each forward call returned
    \* ---- validation_epoch_end / test_epoch_end on the workers
    world_size,            \* the number of worker processes
    device_count,          \* torch.cuda.device_count() on a worker's machine
    dist_init,             \* whether torch.distributed has a process group
    handler,               \* the epoch-end handler the workers run
    outputs,               \* per worker: the step outputs handed to the handler
    gpc,                   \* per worker: position in the handler
    pred_buffer,           \* all_gather of pred: the tensor each worker contributed
    target_buffer,         \* all_gather of target: the tensor each worker contributed
    collective,            \* per worker: whether it entered an all_gather
    evaluated,             \* per worker: the arguments evaluate_metric received
    logged,                \* per worker: the metric names logged and their scale
    heatmap_file,          \* per worker: the records saved to its heatmap file
    \* ---- training_step / on_train_epoch_end
    training_step_outputs, \* self.training_step_outputs
    current_epoch,         \* the trainer's epoch counter
    log_loss,              \* the last value logged as "loss"
    log_epoch_average,     \* the last "training_epoch_average": its epoch and value
    dataset,               \* the dataset collaborator: queues generated, and the
                           \* length of training_step_outputs at the last generate_queue
    train_raised,          \* whether a handler raised
    \* ---- history of the training run (not program state)
    epoch_losses,          \* the losses of the steps of the current epoch
    ended_losses           \* the losses of the steps of the epoch that ended last

lrVars == <<lr_rate, lr_scheduler_epoch, epoch, lr_scale>>
shiftVars == <<ts_x, ts_k, ts_y, ts_stage>>
cfgVars == <<dataset_type, fl_local>>
testVars == <<sed_models, batch, tpc, shift_num, i_round, x_fwd, preds, pred_maps, pred_map,
              j_model, pred, ret,
              orig, scored, fwd_inputs, fwd_results>>
gatherVars == <<world_size, device_count, dist_init, handler, outputs, gpc, pred_buffer,
                target_buffer, collective, evaluated, logged, heatmap_file>>
trainVars == <<training_step_outputs, current_epoch, log_loss, log_epoch_average, dataset,
               train_raised, epoch_losses, ended_losses>>
vars == <<unit, wrapper, lrVars, shiftVars, cfgVars, testVars, gatherVars, trainVars>>

NotScored == [model |-> 0, round |-> 0 - 1, wave |-> <<>>]

\* ---- the idle values of each unit's variables
IdleLr ==
    /\ lr_rate = <<>>
    /\ lr_scheduler_epoch = <<>>
    /\ epoch = 0
    /\ lr_scale = 0

IdleShift ==
    /\ ts_x = <<>>
    /\ ts_k = 0
    /\ ts_y = <<>>
    /\ ts_stage = 0

IdleCfg ==
    /\ dataset_type = "none"
    /\ fl_local = FALSE

IdleTest ==
    /\ sed_models = <<>>
    /\ batch = <<>>
    /\ tpc = "idle"
    /\ shift_num = 0
    /\ i_round = 0
    /\ x_fwd = <<>>
    /\ preds = <<>>
    /\ pred_maps = <<>>
    /\ pred_map = <<>>
    /\ j_model = 0
    /\ pred = <<>>
    /\ ret = <<>>
    /\ orig = <<>>
    /\ scored = NotScored
    /\ fwd_inputs = <<>>
    /\ fwd_results = <<>>

IdleGather ==
    /\ world_size = 0
    /\ device_count = 0
    /\ dist_init = FALSE
    /\ handler = "none"
    /\ outputs = <<>>
    /\ gpc = <<>>
    /\ pred_buffer = <<>>
    /\ target_buffer = <<>>
    /\ collective = <<>>
    /\ evaluated = <<>>
    /\ logged = <<>>
    /\ heatmap_file = <<>>

NotAveraged == [epoch |-> 0 - 1, value |-> [m |-> 0, e |-> 0]]
NewDataset == [queues |-> 0, outputs_seen |-> 0]

IdleTrain ==
    /\ training_step_outputs = <<>>
    /\ current_epoch = 0
    /\ log_loss = [m |-> 0, e |-> 0]
    /\ log_epoch_average = NotAveraged
    /\ dataset = NewDataset
    /\ train_raised = FALSE
    /\ epoch_losses = <<>>
    /\ ended_losses = <<>>

\* ---- end of the idle values

Wrappers == {"SEDWrapper", "Ensemble_SEDWrapper"}

Max(a, b) == IF a >= b THEN a ELSE b
Min(a, b) == IF a <= b THEN a ELSE b

(***************************************************************************)
(* Python list indexing: a negative index counts from the end, an index    *)
(* outside the list raises IndexError.  Lists are 1-based sequences here.  *)
(***************************************************************************)
IndexError == 0 - 1   \* the outcome of a lookup that raises (no rate is negative)

PyIndex(list, idx) ==
    LET pos == IF idx < 0 THEN idx + Len(list) ELSE idx
    IN  IF pos < 0 \/ pos >= Len(list) THEN IndexError ELSE list[pos + 1]

(***************************************************************************)
(* bisect.bisect_left(a, x): the binary search of the standard library,    *)
(* with lo = 0 and hi = len(a).                                            *)
(***************************************************************************)
RECURSIVE bisect_loop(_, _, _, _)
bisect_loop(a, x, lo, hi) ==
    IF lo < hi
    THEN LET mid == (lo + hi) \div 2
         IN  IF a[mid + 1] < x
             THEN bisect_loop(a, x, mid + 1, hi)
             ELSE bisect_loop(a, x, lo, mid)
    ELSE lo

bisect_right(a, x) == Cardinality({k \in DOMAIN a : a[k] <= x})

bisect_left(a, x) == bisect_loop(a, x, 0, Len(a))

(***************************************************************************)
(* Learning-rate multipliers are fixed-point numbers with four decimals:   *)
(* the integer v stands for v / RateScale.  0.98 ** epoch is computed by   *)
(* repeated multiplication, truncated to four decimals at each step.       *)
(***************************************************************************)
RateScale == 10^4
DecayNum == 98
DecayDen == 100
LrFloor == 300

RECURSIVE Pow98(_)
Pow98(e) == IF e <= 0 THEN RateScale ELSE (Pow98(e - 1) * DecayNum) \div DecayDen

Decayed(base, e) == (base * Pow98(e)) \div RateScale

lr_foo_warm2(rate, milestones, e) ==
    IF e < 2
    THEN PyIndex(rate, e)
    ELSE LET lr_pos == -1 - bisect_left(milestones, e)
         IN  IF lr_pos < -3
             THEN Max(Decayed(PyIndex(rate, 0), e), LrFloor)
             ELSE PyIndex(rate, lr_pos)

lr_foo_nofloor(rate, milestones, e) ==
    IF e < 3
    THEN PyIndex(rate, e)
    ELSE LET lr_pos == -1 - bisect_left(milestones, e)
         IN  IF lr_pos < -3
             THEN Decayed(PyIndex(rate, 0), e)
             ELSE PyIndex(rate, lr_pos)

\* SEDWrapper.configure_optimizers.lr_foo
lr_foo(rate, milestones, e) ==
    IF e < 3
    THEN PyIndex(rate, e)
    ELSE LET lr_pos == -1 - bisect_left(milestones, e)
         IN  IF lr_pos < -3
             THEN Max(Decayed(PyIndex(rate, 0), e), LrFloor)
             ELSE PyIndex(rate, lr_pos)

\* Ensemble_SEDWrapper.configure_optimizers.lr_foo
Ensemble_lr_foo(rate, milestones, e) ==
    IF e < 3
    THEN PyIndex(rate, e)
    ELSE LET lr_pos == -1 - bisect_left(milestones, e)
         IN  IF lr_pos < -3
             THEN Max(Decayed(PyIndex(rate, 0), e), LrFloor)
             ELSE PyIndex(rate, lr_pos)

lr_lambda(w, rate, milestones, e) ==
    IF w = "SEDWrapper" THEN lr_foo(rate, milestones, e)
                        ELSE Ensemble_lr_foo(rate, milestones, e)

(***************************************************************************)
(* A waveform tensor (batch x samples) is a sequence of rows, each row a   *)
(* sequence of samples.  x[:, s:] and x[:, :s] are Python slices of every  *)
(* row: a negative bound counts from the end and a bound beyond the row is *)
(* clamped to it.                                                          *)
(***************************************************************************)
PyBound(n, s) == IF s < 0 THEN Max(n + s, 0) ELSE Min(s, n)

SliceFrom(row, s) == SubSeq(row, PyBound(Len(row), s) + 1, Len(row))
SliceTo(row, s) == SubSeq(row, 1, PyBound(Len(row), s))

time_shifting_tail_only(x, shift_len) ==
    [r \in DOMAIN x |-> SliceFrom(x[r], shift_len) \o SliceTo(x[r], shift_len - 1)]

\* SEDWrapper.time_shifting (int(shift_len) of an integer is that integer)
time_shifting(x, shift_len) ==
    [r \in DOMAIN x |-> SliceFrom(x[r], shift_len) \o SliceTo(x[r], shift_len)]

\* Ensemble_SEDWrapper.time_shifting
Ensemble_time_shifting(x, shift_len) ==
    [r \in DOMAIN x |-> SliceFrom(x[r], shift_len) \o SliceTo(x[r], shift_len)]

shift_of(w, x, shift_len) ==
    IF w = "SEDWrapper" THEN time_shifting(x, shift_len)
                        ELSE Ensemble_time_shifting(x, shift_len)

\* the number of samples per row
Samples(x) == Len(x[1])

\* ---- bounds of the shift unit
MaxBatch == 2
MaxLen == 3
ExtraShift == 1

SampleValues == {0, 1}

Waveforms(maxb, lens) ==
    UNION {[1..b -> [1..n -> SampleValues]] : b \in 1..maxb, n \in lens}

InitShift ==
    /\ unit = "shift"
    /\ wrapper \in Wrappers
    /\ ts_x \in Waveforms(MaxBatch, 0..MaxLen)
    /\ ts_k \in 0..(Samples(ts_x) + ExtraShift)
    /\ ts_y = ts_x
    /\ ts_stage = 0
    /\ IdleLr /\ IdleCfg /\ IdleTest /\ IdleGather /\ IdleTrain

\* y = time_shifting(x, k)
ShiftByK ==
    /\ unit = "shift"
    /\ ts_stage = 0
    /\ ts_y' = shift_of(wrapper, ts_y, ts_k)
    /\ ts_stage' = 1
    /\ UNCHANGED <<unit, wrapper, ts_x, ts_k, lrVars, cfgVars, testVars, gatherVars, trainVars>>

\* y = time_shifting(y, N - k)
ShiftByRest ==
    /\ unit = "shift"
    /\ ts_stage = 1
    /\ ts_y' = shift_of(wrapper, ts_y, Samples(ts_x) - ts_k)
    /\ ts_stage' = 2
    /\ UNCHANGED <<unit, wrapper, ts_x, ts_k, lrVars, cfgVars, testVars, gatherVars, trainVars>>

NextShift == ShiftByK \/ ShiftByRest

SpecShift == InitShift /\ [][NextShift]_vars

\* row rotated left by r places, 0 <= r, stated position by position
RotatedLeft(row, r) ==
    [p \in 1..Len(row) |-> row[((p - 1 + r) % Len(row)) + 1]]

\* C4: for 0 <= k <= N, time_shifting(x, k) moves the sample at position p + k
\* to position p (a rotation, so a bijection on sample order), and
\* time_shifting(time_shifting(x, k), N - k) is x again.
C4_ShiftRoundTrip ==
    (unit = "shift" /\ ts_k <= Samples(ts_x))
        => /\ ts_stage = 1 =>
                \A r \in DOMAIN ts_x : ts_y[r] = RotatedLeft(ts_x[r], ts_k)
           /\ ts_stage = 2 => ts_y = ts_x

C4_Witness ==
    /\ unit = "shift" /\ ts_stage = 2
    /\ 0 < ts_k /\ ts_k < Samples(ts_x)
    /\ Len(ts_x) = 2 /\ ts_x[1] # ts_x[2]
    /\ ts_x[1][1] # ts_x[1][ts_k + 1]
    /\ ts_y = ts_x

\* ---- bounds of the schedule unit
MaxEpoch == 9
MaxMilestones == 4
MaxMilestoneEpoch == 6

RateTables == {<<200, 500, 1000>>, <<1000, 500, 250>>, <<10000, 400, 700>>}

IsAscending(s) == \A k \in 1..(Len(s) - 1) : s[k] <= s[k + 1]

MilestoneLists ==
    UNION {{s \in [1..n -> 0..MaxMilestoneEpoch] : IsAscending(s)} : n \in 0..MaxMilestones}

\* configure_optimizers: LambdaLR evaluates lr_lambda for epoch 0 when it is built
InitLr ==
    /\ unit = "lr"
    /\ wrapper \in Wrappers
    /\ lr_rate \in RateTables
    /\ lr_scheduler_epoch \in MilestoneLists
    /\ epoch = 0
    /\ lr_scale = lr_lambda(wrapper, lr_rate, lr_scheduler_epoch, 0)
    /\ IdleShift /\ IdleCfg /\ IdleTest /\ IdleGather /\ IdleTrain

\* scheduler.step() at the end of an epoch
SchedulerStep ==
    /\ unit = "lr"
    /\ epoch < MaxEpoch
    /\ epoch' = epoch + 1
    /\ lr_scale' = lr_lambda(wrapper, lr_rate, lr_scheduler_epoch, epoch + 1)
    /\ UNCHANGED <<unit, wrapper, lr_rate, lr_scheduler_epoch, shiftVars, cfgVars, testVars, gatherVars, trainVars>>

NextLr == SchedulerStep

SpecLr == InitLr /\ [][NextLr]_vars

\* the number of milestones strictly below the epoch
MilestonesPassed == Cardinality({k \in DOMAIN lr_scheduler_epoch : lr_scheduler_epoch[k] < epoch})

\* C1: for epochs 0, 1 and 2 the schedule returns lr_rate[epoch], whatever the
\* milestone list, in both wrappers.
C1_WarmupFromTable ==
    (unit = "lr" /\ epoch < 3) => lr_scale = lr_rate[epoch + 1]

C1_Witness ==
    /\ unit = "lr" /\ epoch = 2 /\ wrapper = "Ensemble_SEDWrapper"
    /\ Len(lr_scheduler_epoch) >= 2 /\ lr_scheduler_epoch[2] < 2
    /\ lr_scale = lr_rate[3]

\* C2: from epoch 3 on, with c = 0, 1 or 2 milestones strictly below the epoch,
\* the schedule returns the table entry counted from the end, lr_rate[-1 - c],
\* and the lookup never leaves the table.
C2_MilestoneFromEnd ==
    (unit = "lr" /\ epoch >= 3 /\ MilestonesPassed <= 2)
        => /\ lr_scale # IndexError
           /\ lr_scale = lr_rate[Len(lr_rate) - MilestonesPassed]

C2_Witness ==
    /\ unit = "lr" /\ epoch >= 3 /\ MilestonesPassed = 2
    /\ \E k \in DOMAIN lr_scheduler_epoch : lr_scheduler_epoch[k] = epoch
    /\ lr_scale = lr_rate[1]

\* C3: from epoch 3 on, with at least three milestones strictly below the epoch
\* (lr_pos < -3), the schedule returns max(lr_rate[0] * 0.98^epoch, 0.03), which
\* is never below 0.03.
C3_DecayFallback ==
    (unit = "lr" /\ epoch >= 3 /\ MilestonesPassed >= 3)
        => /\ lr_scale = Max(Decayed(lr_rate[1], epoch), LrFloor)
           /\ lr_scale >= LrFloor

C3_Witness ==
    /\ unit = "lr" /\ epoch >= 3 /\ MilestonesPassed >= 3
    /\ Decayed(lr_rate[1], epoch) < LrFloor
    /\ lr_scale = LrFloor

(***************************************************************************)
(* float32 arithmetic.  A positive float32 is [m |-> mantissa, e |->       *)
(* exponent] with 2^23 <= m < 2^24 and value m * 2^e; zero is m = 0.       *)
(* Sums and quotients are rounded to nearest, ties to even, as IEEE 754    *)
(* does.  Predictions and losses are positive and within a few binades of  *)
(* each other, so subnormals, overflow and signs do not arise.             *)
(***************************************************************************)
F32Zero == [m |-> 0, e |-> 0]
MantMin == 2^23
MantMax == 2^24

RECURSIVE ExtraBits(_)
ExtraBits(v) == IF v < MantMax THEN 0 ELSE 1 + ExtraBits(v \div 2)

\* the float32 nearest to v * 2^e (plus a nonzero fraction below one unit of v
\* when sticky)
RECURSIVE F32Round(_, _, _)
F32Round(v, e, sticky) ==
    IF v = 0 THEN F32Zero
    ELSE IF v < MantMin THEN F32Round(v * 2, e - 1, sticky)
    ELSE LET s == ExtraBits(v)
             q == v \div (2^s)
             low == v % (2^s)
             half == IF s = 0 THEN 0 ELSE 2^(s - 1)
             up == /\ s > 0
                   /\ \/ low > half
                      \/ low = half /\ (sticky \/ q % 2 = 1)
             mant == IF up THEN q + 1 ELSE q
         IN  IF mant = MantMax THEN [m |-> MantMin, e |-> e + s + 1]
                               ELSE [m |-> mant, e |-> e + s]

\* a + b: the smaller operand is aligned to the larger one with three extra
\* bits, the bits shifted out beyond them kept as the sticky bit
F32Add(a, b) ==
    IF a.m = 0 THEN b
    ELSE IF b.m = 0 THEN a
    ELSE LET big == IF a.e >= b.e THEN a ELSE b
             small == IF a.e >= b.e THEN b ELSE a
             d == big.e - small.e
             shifted == IF d > 27 THEN 0 ELSE (small.m * 8) \div (2^d)
             sticky == IF d > 27 THEN TRUE ELSE (small.m * 8) % (2^d) # 0
         IN  F32Round(big.m * 8 + shifted, big.e - 3, sticky)

\* |a - b| is at most k units in the last place of b
F32Within(a, b, k) ==
    /\ a.m # 0 /\ b.m # 0
    /\ a.e - b.e \in {-1, 0, 1}
    /\ LET lo == Min(a.e, b.e)
           da == a.m * 2^(a.e - lo)
           db == b.m * 2^(b.e - lo)
       IN  (IF da >= db THEN da - db ELSE db - da) <= k * 2^(b.e - lo)

\* a / n for an integer 1 <= n <= 16
F32DivInt(a, n) ==
    IF a.m = 0 THEN F32Zero
    ELSE F32Round((a.m * 32) \div n, a.e - 5, (a.m * 32) % n # 0)

\* tensors of one value per batch row
TensorAdd(a, b) == [r \in DOMAIN a |-> F32Add(a[r], b[r])]
TensorDiv(a, n) == [r \in DOMAIN a |-> F32DivInt(a[r], n)]
TensorZeros(rows) == [r \in 1..rows |-> F32Zero]

RECURSIVE TensorSum(_)
TensorSum(ts) ==
    IF Len(ts) = 1 THEN ts[1]
    ELSE TensorAdd(TensorSum(SubSeq(ts, 1, Len(ts) - 1)), ts[Len(ts)])

\* torch.cat(ts, dim=0).mean(dim=0): the sum over the rounds divided by their number
TensorMean(ts) == TensorDiv(TensorSum(ts), Len(ts))

(***************************************************************************)
(* The wrapped network is a collaborator: a deterministic function from a  *)
(* waveform to a clip-level and a frame-level output per row.  A model is  *)
(* named by its kind; models of the same kind compute the same function.   *)
(* Outputs are float32 values: 0.9, 0.5, 0.1, 0x1.c9d4a4p-1, 0.3.          *)
(***************************************************************************)
OutputValues ==
    << [m |-> 15099494, e |-> -24], [m |-> 8388608, e |-> -24],
       [m |-> 13421773, e |-> -27], [m |-> 15002194, e |-> -24],
       [m |-> 10066330, e |-> -25] >>

RowCode(row) == row[1] + 2 * row[Len(row)] + 3 * row[(Len(row) + 1) \div 2]

OutputAt(n) == OutputValues[(n % Len(OutputValues)) + 1]

sed_model(kind, wave) ==
    [clipwise_output |-> [r \in DOMAIN wave |-> OutputAt(RowCode(wave[r]) + kind)],
     framewise_output |-> [r \in DOMAIN wave |-> OutputAt(RowCode(wave[r]) + 2 * kind + 1)]]

ShiftRounds == 10
ShiftUnit == 100

ShiftNum_and(fl, dtype) == IF fl /\ dtype # "audioset" THEN 1 ELSE ShiftRounds

\* shift_num = 1 if fl_local or dataset_type != "audioset" else 10
ShiftNum(fl, dtype) == IF fl \/ dtype # "audioset" THEN 1 ELSE ShiftRounds

Ensemble_ShiftNum(fl, dtype) == IF fl \/ dtype # "audioset" THEN 1 ELSE ShiftRounds

test_step_round_from_i(kind, wave, round) ==
    LET out == sed_model(kind, wave)
    IN  [pred |-> out.clipwise_output, pred_map |-> out.framewise_output,
         waveform |-> time_shifting(wave, ShiftUnit * round)]

\* SEDWrapper.test_step, one round of the loop: score the batch waveform, then
\* shift it by 100 * (i + 1)
test_step_round(kind, wave, round) ==
    LET out == sed_model(kind, wave)
    IN  [pred |-> out.clipwise_output, pred_map |-> out.framewise_output,
         waveform |-> time_shifting(wave, ShiftUnit * (round + 1))]

\* Ensemble_SEDWrapper.forward, one round of the loop
forward_round(kind, wave, round) ==
    LET out == sed_model(kind, wave)
    IN  [pred |-> out.clipwise_output, pred_map |-> out.framewise_output,
         waveform |-> Ensemble_time_shifting(wave, ShiftUnit * (round + 1))]

\* ---- bounds of the test unit
MaxModels == 4
ExtraSamples == 3

ModelKinds == {1, 2}

DatasetTypes == {"audioset", "esc-50", "scv2"}

TestRow(n, seed) == [p \in 1..n |-> (p * seed) % 7]

TestLens == {ShiftUnit * 3, ShiftUnit * ShiftRounds, ShiftUnit * ShiftRounds + ExtraSamples}

TestWaveforms ==
    {<<TestRow(n, 1)>> : n \in TestLens}
        \cup {<<TestRow(ShiftUnit * ShiftRounds, 2), TestRow(ShiftUnit * ShiftRounds, 3)>>}

TestBatch(wave) ==
    [waveform |-> wave,
     target |-> [r \in DOMAIN wave |-> r % 2],
     audio_name |-> [r \in DOMAIN wave |-> r],
     real_len |-> [r \in DOMAIN wave |-> Len(wave[r])]]

InitTest ==
    /\ unit = "test"
    /\ wrapper \in Wrappers
    /\ dataset_type \in DatasetTypes
    /\ fl_local \in BOOLEAN
    /\ sed_models \in UNION {[1..n -> ModelKinds] : n \in 1..MaxModels}
    /\ wrapper = "SEDWrapper" => Len(sed_models) = 1
    /\ \E wave \in TestWaveforms : batch = TestBatch(wave) /\ orig = wave
    /\ tpc = "start"
    /\ shift_num = 0
    /\ i_round = 0
    /\ x_fwd = <<>>
    /\ preds = <<>>
    /\ pred_maps = <<>>
    /\ pred_map = <<>>
    /\ j_model = 0
    /\ pred = <<>>
    /\ ret = <<>>
    /\ scored = NotScored
    /\ fwd_inputs = <<>>
    /\ fwd_results = <<>>
    /\ IdleLr /\ IdleShift /\ IdleGather /\ IdleTrain

\* SEDWrapper.test_step up to the loop
TestStepBegin ==
    /\ unit = "test" /\ wrapper = "SEDWrapper" /\ tpc = "start"
    /\ preds' = <<>>
    /\ shift_num' = ShiftNum(fl_local, dataset_type)
    /\ i_round' = 0
    /\ tpc' = "loop"
    /\ UNCHANGED <<unit, wrapper, lrVars, shiftVars, cfgVars, sed_models, batch, x_fwd,
                   pred_maps, pred_map, j_model, pred, ret, orig, scored, fwd_inputs,
                   fwd_results, gatherVars, trainVars>>

\* SEDWrapper.test_step, one round: batch["waveform"] is scored and replaced
TestStepRound ==
    /\ unit = "test" /\ wrapper = "SEDWrapper" /\ tpc = "loop"
    /\ i_round < shift_num
    /\ LET r == test_step_round(sed_models[1], batch.waveform, i_round)
       IN  /\ preds' = Append(preds, r.pred)
           /\ pred_map' = r.pred_map
           /\ batch' = [batch EXCEPT !.waveform = r.waveform]
    /\ scored' = [model |-> 1, round |-> i_round, wave |-> batch.waveform]
    /\ i_round' = i_round + 1
    /\ UNCHANGED <<unit, wrapper, lrVars, shiftVars, cfgVars, sed_models, tpc, shift_num,
                   x_fwd, pred_maps, j_model, pred, ret, orig, fwd_inputs, fwd_results,
                   gatherVars, trainVars>>

\* SEDWrapper.test_step after the loop: the mean over the rounds, and the return
TestStepReturn ==
    /\ unit = "test" /\ wrapper = "SEDWrapper" /\ tpc = "loop"
    /\ i_round = shift_num
    /\ pred' = TensorMean(preds)
    /\ ret' = IF fl_local
              THEN [pred |-> pred', pred_map |-> pred_map,
                    audio_name |-> batch.audio_name, real_len |-> batch.real_len]
              ELSE [pred |-> pred', target |-> batch.target]
    /\ tpc' = "done"
    /\ UNCHANGED <<unit, wrapper, lrVars, shiftVars, cfgVars, sed_models, batch, shift_num,
                   i_round, x_fwd, preds, pred_maps, pred_map, j_model, orig, scored,
                   fwd_inputs, fwd_results, gatherVars, trainVars>>

\* Ensemble_SEDWrapper.test_step up to the loop over the models
EnsembleTestStepBegin ==
    /\ unit = "test" /\ wrapper = "Ensemble_SEDWrapper" /\ tpc = "start"
    /\ pred' = TensorZeros(Len(batch.waveform))
    /\ pred_map' = IF fl_local THEN TensorZeros(Len(batch.waveform)) ELSE pred_map
    /\ j_model' = 0
    /\ tpc' = "models"
    /\ UNCHANGED <<unit, wrapper, lrVars, shiftVars, cfgVars, sed_models, batch, shift_num,
                   i_round, x_fwd, preds, pred_maps, ret, orig, scored, fwd_inputs,
                   fwd_results, gatherVars, trainVars>>

\* self(batch["waveform"], j): Ensemble_SEDWrapper.forward up to its loop
ForwardBegin ==
    /\ unit = "test" /\ wrapper = "Ensemble_SEDWrapper" /\ tpc = "models"
    /\ j_model < Len(sed_models)
    /\ x_fwd' = batch.waveform
    /\ preds' = <<>>
    /\ pred_maps' = <<>>
    /\ shift_num' = Ensemble_ShiftNum(fl_local, dataset_type)
    /\ i_round' = 0
    /\ fwd_inputs' = Append(fwd_inputs, batch.waveform)
    /\ tpc' = "forward"
    /\ UNCHANGED <<unit, wrapper, lrVars, shiftVars, cfgVars, sed_models, batch, pred_map,
                   j_model, pred, ret, orig, scored, fwd_results, gatherVars, trainVars>>

\* Ensemble_SEDWrapper.forward, one round: the local x is scored and replaced
ForwardRound ==
    /\ unit = "test" /\ wrapper = "Ensemble_SEDWrapper" /\ tpc = "forward"
    /\ i_round < shift_num
    /\ LET r == forward_round(sed_models[j_model + 1], x_fwd, i_round)
       IN  /\ preds' = Append(preds, r.pred)
           /\ pred_maps' = Append(pred_maps, r.pred_map)
           /\ x_fwd' = r.waveform
    /\ scored' = [model |-> j_model + 1, round |-> i_round, wave |-> x_fwd]
    /\ i_round' = i_round + 1
    /\ UNCHANGED <<unit, wrapper, lrVars, shiftVars, cfgVars, sed_models, batch, tpc,
                   shift_num, pred_map, j_model, pred, ret, orig, fwd_inputs, fwd_results,
                   gatherVars, trainVars>>

\* Ensemble_SEDWrapper.forward returns the means; test_step adds them to its sums
ForwardReturn ==
    /\ unit = "test" /\ wrapper = "Ensemble_SEDWrapper" /\ tpc = "forward"
    /\ i_round = shift_num
    /\ LET temp_pred == TensorMean(preds)
           temp_pred_map == TensorMean(pred_maps)
       IN  /\ pred' = TensorAdd(pred, temp_pred)
           /\ pred_map' = IF fl_local THEN TensorAdd(pred_map, temp_pred_map) ELSE pred_map
           /\ fwd_results' = Append(fwd_results, [pred |-> temp_pred, pred_map |-> temp_pred_map])
    /\ j_model' = j_model + 1
    /\ tpc' = "models"
    /\ UNCHANGED <<unit, wrapper, lrVars, shiftVars, cfgVars, sed_models, batch, shift_num,
                   i_round, x_fwd, preds, pred_maps, ret, orig, scored, fwd_inputs, gatherVars, trainVars>>

EnsembleTestStepReturn_sum ==
    /\ unit = "test" /\ wrapper = "Ensemble_SEDWrapper" /\ tpc = "models"
    /\ j_model = Len(sed_models)
    /\ pred' = pred
    /\ pred_map' = pred_map
    /\ ret' = IF fl_local
              THEN [pred |-> pred', pred_map |-> pred_map',
                    audio_name |-> batch.audio_name, real_len |-> batch.real_len]
              ELSE [pred |-> pred', target |-> batch.target]
    /\ tpc' = "done"
    /\ UNCHANGED <<unit, wrapper, lrVars, shiftVars, cfgVars, sed_models, batch, shift_num,
                   i_round, x_fwd, preds, pred_maps, j_model, orig, scored, fwd_inputs,
                   fwd_results, gatherVars, trainVars>>

\* Ensemble_SEDWrapper.test_step after the loop: the sums divided by the number
\* of models, and the return
EnsembleTestStepReturn ==
    /\ unit = "test" /\ wrapper = "Ensemble_SEDWrapper" /\ tpc = "models"
    /\ j_model = Len(sed_models)
    /\ pred' = TensorDiv(pred, Len(sed_models))
    /\ pred_map' = IF fl_local THEN TensorDiv(pred_map, Len(sed_models)) ELSE pred_map
    /\ ret' = IF fl_local
              THEN [pred |-> pred', pred_map |-> pred_map',
                    audio_name |-> batch.audio_name, real_len |-> batch.real_len]
              ELSE [pred |-> pred', target |-> batch.target]
    /\ tpc' = "done"
    /\ UNCHANGED <<unit, wrapper, lrVars, shiftVars, cfgVars, sed_models, batch, shift_num,
                   i_round, x_fwd, preds, pred_maps, j_model, orig, scored, fwd_inputs,
                   fwd_results, gatherVars, trainVars>>

NextTest ==
    \/ TestStepBegin
    \/ TestStepRound
    \/ TestStepReturn
    \/ EnsembleTestStepBegin
    \/ ForwardBegin
    \/ ForwardRound
    \/ ForwardReturn
    \/ EnsembleTestStepReturn

SpecTest == InitTest /\ [][NextTest]_vars

TestRows == DOMAIN orig
TestSamples == Len(orig[1])
ShiftNumSet ==
    \/ wrapper = "SEDWrapper" /\ tpc \in {"loop", "done"}
    \/ wrapper = "Ensemble_SEDWrapper" /\ (tpc = "forward" \/ j_model > 0)

\* C5: a test step makes 10 shift rounds exactly when dataset_type is "audioset"
\* and fl_local is off, and 1 round otherwise; with 1 round the clip-level
\* prediction that SEDWrapper.test_step returns, and that
\* Ensemble_SEDWrapper.forward returns, is the model's prediction on the
\* original waveform, bit for bit.
C5_ShiftRoundsAndSingleRound ==
    (unit = "test" /\ ShiftNumSet)
        => /\ shift_num = (IF dataset_type = "audioset" /\ ~fl_local THEN 10 ELSE 1)
           /\ (wrapper = "SEDWrapper" /\ tpc = "done")
                => /\ Len(preds) = shift_num
                   /\ shift_num = 1
                        => ret.pred = sed_model(sed_models[1], orig).clipwise_output
           /\ wrapper = "Ensemble_SEDWrapper"
                => \A k \in DOMAIN fwd_results :
                      shift_num = 1
                        => fwd_results[k].pred = sed_model(sed_models[k], orig).clipwise_output
           /\ (wrapper = "Ensemble_SEDWrapper" /\ tpc = "models") => Len(preds) = shift_num

C5_Witness ==
    /\ unit = "test" /\ wrapper = "SEDWrapper" /\ tpc = "done"
    /\ dataset_type = "audioset" /\ fl_local
    /\ shift_num = 1 /\ Len(preds) = 1
    /\ ret.pred = sed_model(sed_models[1], orig).clipwise_output

IdenticalPredictions ==
    \A k \in DOMAIN fwd_results : fwd_results[k] = fwd_results[1]

EnsembleDone == unit = "test" /\ wrapper = "Ensemble_SEDWrapper" /\ tpc = "done"

SameUnmodifiedInput ==
    /\ batch.waveform = orig
    /\ Len(fwd_inputs) = Len(sed_models)
    /\ \A k \in DOMAIN fwd_inputs : fwd_inputs[k] = orig

\* C6 as stated: when all N models return identical predictions, the ensemble
\* average of the clip-level predictions (and of the frame-level maps under
\* fl_local) is equal to one model's prediction, and every model is given the
\* unmodified batch waveform.
C6_AverageEqualsSingle ==
    (EnsembleDone /\ IdenticalPredictions)
        => /\ ret.pred = fwd_results[1].pred
           /\ fl_local => ret.pred_map = fwd_results[1].pred_map
           /\ SameUnmodifiedInput

\* C6 amended: the average is equal to one model's prediction bit for bit when
\* N is 1, 2 or 4, and for every N lies within N units in the last place of it
\* (the float32 sum of N equal values and its division by N are each rounded);
\* every model is given the unmodified batch waveform.
C6_AverageWithinRounding ==
    (EnsembleDone /\ IdenticalPredictions)
        => /\ Len(sed_models) \in {1, 2, 4}
                => /\ ret.pred = fwd_results[1].pred
                   /\ fl_local => ret.pred_map = fwd_results[1].pred_map
           /\ \A r \in TestRows :
                /\ F32Within(ret.pred[r], fwd_results[1].pred[r], Len(sed_models))
                /\ fl_local => F32Within(ret.pred_map[r], fwd_results[1].pred_map[r],
                                         Len(sed_models))
           /\ SameUnmodifiedInput

C6_Witness ==
    /\ EnsembleDone /\ IdenticalPredictions
    /\ Len(sed_models) = 3 /\ fl_local
    /\ ret.pred # fwd_results[1].pred
    /\ F32Within(ret.pred[1], fwd_results[1].pred[1], 1)

\* C10: in a 10-round test step on N >= 1000 samples, round i scores the
\* original waveform rotated left by 100 * (1 + ... + i) = 50 * i * (i + 1)
\* samples modulo N (round 0 the original itself); when SEDWrapper.test_step
\* returns, batch["waveform"] is the original rotated left by the total of the
\* ten shifts, while Ensemble_SEDWrapper leaves batch["waveform"] as it was.
C10_ShiftsAccumulate ==
    unit = "test"
        => /\ (shift_num = ShiftRounds /\ TestSamples >= ShiftUnit * ShiftRounds)
                => /\ scored.round >= 0
                        => \A r \in TestRows :
                              scored.wave[r] =
                                 RotatedLeft(orig[r], ((ShiftUnit * scored.round * (scored.round + 1))
                                                          \div 2) % TestSamples)
                   /\ (wrapper = "SEDWrapper" /\ tpc = "done")
                        => \A r \in TestRows :
                              batch.waveform[r] =
                                 RotatedLeft(orig[r], ((ShiftUnit * ShiftRounds * (ShiftRounds + 1))
                                                          \div 2) % TestSamples)
           /\ wrapper = "Ensemble_SEDWrapper" => batch.waveform = orig

C10_Witness ==
    /\ unit = "test" /\ wrapper = "SEDWrapper" /\ tpc = "done"
    /\ shift_num = ShiftRounds /\ TestSamples > ShiftUnit * ShiftRounds
    /\ scored.round = ShiftRounds - 1
    /\ scored.wave # orig /\ batch.waveform # orig /\ batch.waveform # scored.wave

(***************************************************************************)
(* validation_epoch_end and test_epoch_end.  Every worker process runs the *)
(* handler on its own step outputs; a worker inside dist.all_gather is     *)
(* blocked until every worker of the process group has contributed.  The   *)
(* samplers give every worker the same number of rows, as all_gather       *)
(* requires.  A prediction row is an integer naming the (worker, batch,    *)
(* row) it belongs to; a target row is a one-hot vector.                   *)
(***************************************************************************)
\* ---- bounds of the epoch-end unit
MaxWorkers == 3
MaxDevices == 2
MaxSteps == 2
BatchRows == 2
NumClasses == 2

Workers == 1..world_size

OneHot(c) == [k \in 1..NumClasses |-> IF k = c + 1 THEN 1 ELSE 0]

StepOutput(w, b, fl) ==
    IF fl
    THEN [pred |-> [r \in 1..BatchRows |-> 100 * w + 10 * b + r],
          pred_map |-> [r \in 1..BatchRows |-> 1000 + 100 * w + 10 * b + r],
          audio_name |-> [r \in 1..BatchRows |-> 10 * b + r],
          real_len |-> [r \in 1..BatchRows |-> r]]
    ELSE [pred |-> [r \in 1..BatchRows |-> 100 * w + 10 * b + r],
          target |-> [r \in 1..BatchRows |-> OneHot((w + b + r) % NumClasses)]]

\* torch.cat(tensors, dim=0) / np.concatenate(arrays, axis=0)
RECURSIVE Cat(_)
Cat(tensors) == IF tensors = <<>> THEN <<>> ELSE Head(tensors) \o Cat(Tail(tensors))

\* np.argmax(row): the index of the first largest entry
ArgMax(row) ==
    CHOOSE c \in 0..(Len(row) - 1) :
        /\ \A k \in 1..Len(row) : row[k] <= row[c + 1]
        /\ \A k \in 1..c : row[k] < row[c + 1]

\* pred = torch.cat([d[0] for d in outputs]), target = torch.cat([d[1] for d in outputs])
LocalPred(w) == Cat([b \in DOMAIN outputs[w] |-> outputs[w][b].pred])
LocalTarget(w) == Cat([b \in DOMAIN outputs[w] |-> outputs[w][b].target])

\* the arguments of evaluate_metric(gather_pred, gather_target), after the
\* argmax of the targets that dataset_type "scv2" asks for
MetricArgs(gather_pred, gather_target) ==
    [pred |-> gather_pred,
     ans |-> IF dataset_type = "scv2"
             THEN [k \in DOMAIN gather_target |-> ArgMax(gather_target[k])]
             ELSE gather_target]

\* the keys of evaluate_metric's result, which the handler logs
MetricNames == IF dataset_type = "audioset" THEN {"mAP", "mAUC", "dprime"} ELSE {"acc"}

NotEvaluated == [pred |-> <<>>, ans |-> <<>>]
NotLogged == [names |-> {}, scale |-> 0]

InitGather ==
    /\ unit = "gather"
    /\ wrapper \in Wrappers
    /\ handler \in {"validation_epoch_end", "test_epoch_end"}
    /\ wrapper = "Ensemble_SEDWrapper" => handler = "test_epoch_end"
    /\ dataset_type \in DatasetTypes
    /\ fl_local \in BOOLEAN
    /\ world_size \in 1..MaxWorkers
    /\ device_count \in 0..MaxDevices
    /\ dist_init \in BOOLEAN
    /\ world_size > 1 => dist_init
    /\ \E n \in 1..MaxSteps :
          outputs = [w \in Workers |->
                        [b \in 1..n |-> StepOutput(w, b, fl_local /\ handler = "test_epoch_end")]]
    /\ gpc = [w \in Workers |-> "start"]
    /\ pred_buffer = [w \in Workers |-> <<>>]
    /\ target_buffer = [w \in Workers |-> <<>>]
    /\ collective = [w \in Workers |-> FALSE]
    /\ evaluated = [w \in Workers |-> NotEvaluated]
    /\ logged = [w \in Workers |-> NotLogged]
    /\ heatmap_file = [w \in Workers |-> <<>>]
    /\ IdleLr /\ IdleShift /\ IdleTest /\ IdleTrain

\* whether the handler takes the branch that calls dist.all_gather
TakesGatherBranch ==
    \/ handler = "validation_epoch_end" /\ device_count > 1
    \/ handler = "test_epoch_end" /\ ~fl_local

\* validation_epoch_end, the else branch: the local tensors are evaluated
ValidationLocal(w) ==
    /\ unit = "gather" /\ gpc[w] = "start"
    /\ handler = "validation_epoch_end" /\ ~(device_count > 1)
    /\ evaluated' = [evaluated EXCEPT ![w] = MetricArgs(LocalPred(w), LocalTarget(w))]
    /\ logged' = [logged EXCEPT ![w] = [names |-> MetricNames, scale |-> 1]]
    /\ gpc' = [gpc EXCEPT ![w] = "done"]
    /\ UNCHANGED <<unit, wrapper, lrVars, shiftVars, cfgVars, testVars, trainVars, world_size,
                   device_count, dist_init, handler, outputs, pred_buffer, target_buffer,
                   collective, heatmap_file>>

\* dist.get_world_size() with no process group raises
GatherRaises(w) ==
    /\ unit = "gather" /\ gpc[w] = "start"
    /\ TakesGatherBranch /\ ~dist_init
    /\ gpc' = [gpc EXCEPT ![w] = "raised"]
    /\ UNCHANGED <<unit, wrapper, lrVars, shiftVars, cfgVars, testVars, trainVars, world_size,
                   device_count, dist_init, handler, outputs, pred_buffer, target_buffer,
                   collective, evaluated, logged, heatmap_file>>

\* the worker enters dist.all_gather(gather_pred, pred)
AllGatherPredEnter(w) ==
    /\ unit = "gather" /\ gpc[w] = "start"
    /\ TakesGatherBranch /\ dist_init
    /\ collective' = [collective EXCEPT ![w] = TRUE]
    /\ pred_buffer' = [pred_buffer EXCEPT ![w] = LocalPred(w)]
    /\ gpc' = [gpc EXCEPT ![w] = "all_gather_pred"]
    /\ UNCHANGED <<unit, wrapper, lrVars, shiftVars, cfgVars, testVars, trainVars, world_size,
                   device_count, dist_init, handler, outputs, target_buffer, evaluated,
                   logged, heatmap_file>>

\* all_gather of pred returns once every worker has contributed; the worker
\* enters dist.all_gather(gather_target, target)
AllGatherTargetEnter(w) ==
    /\ unit = "gather" /\ gpc[w] = "all_gather_pred"
    /\ \A v \in Workers : pred_buffer[v] # <<>>
    /\ target_buffer' = [target_buffer EXCEPT ![w] = LocalTarget(w)]
    /\ gpc' = [gpc EXCEPT ![w] = "all_gather_target"]
    /\ UNCHANGED <<unit, wrapper, lrVars, shiftVars, cfgVars, testVars, trainVars, world_size,
                   device_count, dist_init, handler, outputs, pred_buffer, collective,
                   evaluated, logged, heatmap_file>>

\* all_gather of target returns; the shards are concatenated in rank order,
\* evaluated and logged (test_epoch_end scales what it logs by the world size)
GatheredEvaluate(w) ==
    /\ unit = "gather" /\ gpc[w] = "all_gather_target"
    /\ \A v \in Workers : target_buffer[v] # <<>>
    /\ evaluated' = [evaluated EXCEPT ![w] = MetricArgs(Cat(pred_buffer), Cat(target_buffer))]
    /\ logged' = [logged EXCEPT ![w] =
                    [names |-> MetricNames,
                     scale |-> IF handler = "test_epoch_end" THEN world_size ELSE 1]]
    /\ gpc' = [gpc EXCEPT ![w] = "done"]
    /\ UNCHANGED <<unit, wrapper, lrVars, shiftVars, cfgVars, testVars, trainVars, world_size,
                   device_count, dist_init, handler, outputs, pred_buffer, target_buffer,
                   collective, heatmap_file>>

\* test_epoch_end under fl_local: one record per example goes to the worker's file
SaveHeatmap(w) ==
    /\ unit = "gather" /\ gpc[w] = "start"
    /\ handler = "test_epoch_end" /\ fl_local
    /\ LET cat_pred == Cat([b \in DOMAIN outputs[w] |-> outputs[w][b].pred])
           cat_map == Cat([b \in DOMAIN outputs[w] |-> outputs[w][b].pred_map])
           audio_name == Cat([b \in DOMAIN outputs[w] |-> outputs[w][b].audio_name])
           real_len == Cat([b \in DOMAIN outputs[w] |-> outputs[w][b].real_len])
       IN  heatmap_file' = [heatmap_file EXCEPT ![w] =
                [k \in 1..Len(cat_pred) |->
                    [audio_name |-> audio_name[k], heatmap |-> cat_map[k],
                     pred |-> cat_pred[k], real_len |-> real_len[k]]]]
    /\ gpc' = [gpc EXCEPT ![w] = "done"]
    /\ UNCHANGED <<unit, wrapper, lrVars, shiftVars, cfgVars, testVars, trainVars, world_size,
                   device_count, dist_init, handler, outputs, pred_buffer, target_buffer,
                   collective, evaluated, logged>>

NextGather ==
    \/ \E w \in Workers : ValidationLocal(w)
    \/ \E w \in Workers : GatherRaises(w)
    \/ \E w \in Workers : AllGatherPredEnter(w)
    \/ \E w \in Workers : AllGatherTargetEnter(w)
    \/ \E w \in Workers : GatheredEvaluate(w)
    \/ \E w \in Workers : SaveHeatmap(w)

SpecGather == InitGather /\ [][NextGather]_vars

ComputesMetrics == handler = "validation_epoch_end" \/ ~fl_local

\* C7: on every path that computes metrics, with one worker the all_gather is
\* skipped and evaluate_metric receives the worker's local tensors.
C7_SingleWorkerSkipsGather ==
    (unit = "gather" /\ world_size = 1 /\ ComputesMetrics)
        => \A w \in Workers :
              /\ ~collective[w]
              /\ gpc[w] # "raised"
              /\ gpc[w] = "done"
                    => evaluated[w] = MetricArgs(LocalPred(w), LocalTarget(w))

\* C8: with more than one worker, a worker evaluates metrics only after every
\* worker's shards have arrived, and on the shards of all workers concatenated
\* in rank order, predictions and targets alike.
C8_AllShardsInRankOrder ==
    (unit = "gather" /\ world_size > 1 /\ ComputesMetrics)
        => \A w \in Workers :
              gpc[w] = "done"
                 => /\ \A v \in Workers : /\ pred_buffer[v] = LocalPred(v)
                                          /\ target_buffer[v] = LocalTarget(v)
                    /\ evaluated[w] = MetricArgs(Cat([v \in Workers |-> LocalPred(v)]),
                                                 Cat([v \in Workers |-> LocalTarget(v)]))

(***************************************************************************)
(* training_step and on_train_epoch_end.  The loss of a step is what the   *)
(* loss function returns for the batch and, under dataset_type "audioset", *)
(* the mixup coefficients drawn for it.                                    *)
(***************************************************************************)
\* ---- bounds of the training unit
MaxTrainEpochs == 3
MaxStepsPerEpoch == 3

TrainBatches == {0, 1}

\* loss_func(pred, batch["target"]) for batch b mixed with coefficients lam
LossOf(b, lam) == OutputAt(b + 2 * lam)

RECURSIVE ScalarSum(_)
ScalarSum(losses) ==
    IF losses = <<>> THEN F32Zero
    ELSE F32Add(ScalarSum(SubSeq(losses, 1, Len(losses) - 1)), losses[Len(losses)])

\* torch.stack(losses).mean()
StackMean(losses) == F32DivInt(ScalarSum(losses), Len(losses))

\* dataset.generate_queue(), which finds self.training_step_outputs as it is
\* at the moment of the call
generate_queue(ds, step_outputs) ==
    [queues |-> ds.queues + 1, outputs_seen |-> Len(step_outputs)]

InitTrain ==
    /\ unit = "train"
    /\ wrapper = "SEDWrapper"
    /\ dataset_type \in DatasetTypes
    /\ fl_local = FALSE
    /\ training_step_outputs = <<>>
    /\ current_epoch = 0
    /\ log_loss = F32Zero
    /\ log_epoch_average = NotAveraged
    /\ dataset = NewDataset
    /\ train_raised = FALSE
    /\ epoch_losses = <<>>
    /\ ended_losses = <<>>
    /\ IdleLr /\ IdleShift /\ IdleTest /\ IdleGather

\* SEDWrapper.training_step
training_step ==
    /\ unit = "train" /\ ~train_raised
    /\ current_epoch < MaxTrainEpochs
    /\ Len(epoch_losses) < MaxStepsPerEpoch
    /\ \E b \in TrainBatches :
          LET mix_lambda == IF dataset_type = "audioset" THEN 1 ELSE 0
              loss == LossOf(b, mix_lambda)
          IN  /\ training_step_outputs' = Append(training_step_outputs, loss)
              /\ log_loss' = loss
              /\ epoch_losses' = Append(epoch_losses, loss)
    /\ UNCHANGED <<unit, wrapper, lrVars, shiftVars, cfgVars, testVars, gatherVars,
                   current_epoch, log_epoch_average, dataset, train_raised, ended_losses>>

on_train_epoch_end_keep ==
    /\ unit = "train" /\ ~train_raised
    /\ current_epoch < MaxTrainEpochs
    /\ training_step_outputs # <<>>
    /\ log_epoch_average' = [epoch |-> current_epoch, value |-> StackMean(training_step_outputs)]
    /\ training_step_outputs' = training_step_outputs
    /\ dataset' = generate_queue(dataset, <<>>)
    /\ current_epoch' = current_epoch + 1
    /\ ended_losses' = epoch_losses
    /\ epoch_losses' = <<>>
    /\ UNCHANGED <<unit, wrapper, lrVars, shiftVars, cfgVars, testVars, gatherVars,
                   log_loss, train_raised>>

\* SEDWrapper.on_train_epoch_end: average and log, clear, then generate_queue
on_train_epoch_end ==
    /\ unit = "train" /\ ~train_raised
    /\ current_epoch < MaxTrainEpochs
    /\ training_step_outputs # <<>>
    /\ LET epoch_average == StackMean(training_step_outputs)
           cleared == <<>>
       IN  /\ log_epoch_average' = [epoch |-> current_epoch, value |-> epoch_average]
           /\ training_step_outputs' = cleared
           /\ dataset' = generate_queue(dataset, cleared)
    /\ current_epoch' = current_epoch + 1
    /\ ended_losses' = epoch_losses
    /\ epoch_losses' = <<>>
    /\ UNCHANGED <<unit, wrapper, lrVars, shiftVars, cfgVars, testVars, gatherVars,
                   log_loss, train_raised>>

\* SEDWrapper.on_train_epoch_end after an epoch without steps: torch.stack of
\* an empty list raises
on_train_epoch_end_raises ==
    /\ unit = "train" /\ ~train_raised
    /\ current_epoch < MaxTrainEpochs
    /\ training_step_outputs = <<>>
    /\ train_raised' = TRUE
    /\ UNCHANGED <<unit, wrapper, lrVars, shiftVars, cfgVars, testVars, gatherVars,
                   training_step_outputs, current_epoch, log_loss, log_epoch_average,
                   dataset, epoch_losses, ended_losses>>

NextTrain == training_step \/ on_train_epoch_end \/ on_train_epoch_end_raises

SpecTrain == InitTrain /\ [][NextTrain]_vars

\* C9: over epochs of one or more training steps followed by
\* on_train_epoch_end, the accumulator holds exactly one loss per step of the
\* current epoch; the value logged as training_epoch_average is the mean of the
\* losses of the steps of the epoch that ended, and of no others; after the
\* handler the accumulator is empty; generate_queue has run once per ended
\* epoch, each time finding the accumulator already cleared.
C9_EpochAccumulator ==
    (unit = "train" /\ ~train_raised)
        => /\ training_step_outputs = epoch_losses
           /\ log_epoch_average.epoch >= 0
                => /\ log_epoch_average.epoch = current_epoch - 1
                   /\ log_epoch_average.value = StackMean(ended_losses)
           /\ (current_epoch > 0 /\ epoch_losses = <<>>) => training_step_outputs = <<>>
           /\ dataset.queues = current_epoch
           /\ dataset.outputs_seen = 0

C9_Witness ==
    /\ unit = "train" /\ ~train_raised
    /\ current_epoch = 2
    /\ log_epoch_average.epoch = 1
    /\ Len(ended_losses) = 2 /\ ended_losses[1] # ended_losses[2]
    /\ log_epoch_average.value = StackMean(ended_losses)
    /\ training_step_outputs = <<>>
    /\ dataset.queues = 2

(***************************************************************************)
(* The whole program: one of the units runs.                               *)
(***************************************************************************)
Init == InitLr \/ InitShift \/ InitTest \/ InitGather \/ InitTrain

Next == NextLr \/ NextShift \/ NextTest \/ NextGather \/ NextTrain

Spec == Init /\ [][Next]_vars

=============================================================================
